---- MODULE Spec2Model ----
(***************************************************************************)
(* Model of src/Custom_Chatbot.ipynb: a retrieval-augmented question       *)
(* answering notebook.  Cells run top to bottom: the API key is read,      *)
(* main() builds the passage table and its embeddings, then an interactive *)
(* loop answers questions with get_relevant_rows / create_prompt /         *)
(* get_openai_answer.                                                      *)
(*                                                                         *)
(* Representation.  A string is a sequence of atoms.  For texts that are   *)
(* tokenized the atoms are the tokens of the text, so the tokenizer's      *)
(* count len(tokenizer.encode(s)) is Len(s) and concatenating strings      *)
(* concatenates their tokens.  For strings that are stripped, lowered or   *)
(* sliced the atoms are characters.  A Python exception leaving a function *)
(* is the status "raised" of its result.  None / NaN is the empty tuple.   *)
(***************************************************************************)
EXTENDS Integers, Sequences, FiniteSets, TLC

VARIABLES
    pc,               \* position of the notebook's execution
    stdout,           \* lines printed by get_openai_api_key
    key,              \* get_openai_api_key: the local `key`
    lines,            \* load_dataset: the extract split on "\n"
    df,               \* the passage table (sequence of rows)
    embeddings,       \* generate_embeddings: the local list `embeddings`
    calls,            \* the embedding provider's log of passage requests
    csv,              \* contents of ./embeddings_with_vectors.csv
    data,             \* the global `data` returned by main()
    user_input,       \* the question typed by the user
    top_n,            \* parameter top_n
    max_token_count,  \* parameter max_token_count / max_prompt_tokens
    response,         \* the last provider response received
    relevant_rows,    \* result of get_relevant_rows
    prompt,           \* result of create_prompt
    answer            \* result of get_openai_answer

vars == <<pc, stdout, key, lines, df, embeddings, calls, csv, data, user_input,
          top_n, max_token_count, response, relevant_rows, prompt, answer>>

\* ------------------------------------------------------------------ bounds
MaxContextRows == 4     \* passages handed to create_prompt
MaxBudget == 14         \* largest max_token_count tried
MaxQuestionLen == 2     \* tokens in a question handed to create_prompt

\* ----------------------------------------------------------------- helpers
None == <<>>

NoRows == [status |-> "none", rows |-> <<>>, ranked |-> FALSE, warned |-> FALSE]

NoResponse == [kind |-> "none"]

SeqsUpTo(S, n) == UNION {[1..k -> S] : k \in 0..n}

NonEmptySeqsUpTo(S, n) == UNION {[1..k -> S] : k \in 1..n}

Head_n(s, n) == SubSeq(s, 1, IF n < Len(s) THEN n ELSE Len(s))

\* ----------------------------------------------------------- create_prompt
\* prompt_template as the tokenizer sees it; "{}" are the two replacement
\* fields of str.format.
prompt_template ==
    <<"Answer the question based on the context below.", "Context:", "{}",
      "---", "Question:", "{}", "Answer:">>

\* "\n\n###\n\n": at least one token once joined between two passages.
ContextSeparator == <<"###">>

\* len(tokenizer.encode(s))
tokens(s) == Len(s)

\* sep.join(parts)
RECURSIVE join(_, _)
join(sep, parts) ==
    IF parts = <<>> THEN <<>>
    ELSE IF Len(parts) = 1 THEN Head(parts)
    ELSE Head(parts) \o sep \o join(sep, Tail(parts))

\* template.format(a, b): the first field takes a, the second b.
RECURSIVE format(_, _)
format(template, args) ==
    IF template = <<>> THEN <<>>
    ELSE IF Head(template) = "{}" /\ args # <<>>
         THEN Head(args) \o format(Tail(template), Tail(args))
         ELSE <<Head(template)>> \o format(Tail(template), args)

\* The for loop with `continue` in place of `break`.
RECURSIVE PackContextSkipping(_, _, _)
PackContextSkipping(texts, current_token_count, budget) ==
    IF texts = <<>> THEN <<>>
    ELSE LET tokens_in_text == tokens(Head(texts)) IN
         IF current_token_count + tokens_in_text <= budget
         THEN <<Head(texts)>> \o
              PackContextSkipping(Tail(texts),
                                  current_token_count + tokens_in_text, budget)
         ELSE PackContextSkipping(Tail(texts), current_token_count, budget)

\* The for loop of create_prompt: the list `context` it leaves.
RECURSIVE PackContext(_, _, _)
PackContext(texts, current_token_count, budget) ==
    IF texts = <<>> THEN <<>>
    ELSE LET tokens_in_text == tokens(Head(texts)) IN
         IF current_token_count + tokens_in_text <= budget
         THEN <<Head(texts)>> \o
              PackContext(Tail(texts), current_token_count + tokens_in_text, budget)
         ELSE <<>>

TextColumn(rows) == [k \in DOMAIN rows |-> rows[k].text]

create_prompt(question, rows, budget) ==
    LET current_token_count == tokens(prompt_template) + tokens(question)
        context == PackContext(TextColumn(rows), current_token_count, budget)
    IN  format(prompt_template, <<join(ContextSeparator, context), question>>)

\* ---------------------------------------------- specification: create_prompt
PromptTexts == {<<"a">>, <<"b", "b">>, <<"c", "c", "c">>}

PromptQuestions == NonEmptySeqsUpTo({"q"}, MaxQuestionLen)

PromptRows(ts) == [k \in DOMAIN ts |-> [index |-> k, text |-> ts[k]]]

InitPrompt ==
    /\ pc = "create_prompt"
    /\ user_input \in PromptQuestions
    /\ \E ts \in SeqsUpTo(PromptTexts, MaxContextRows) :
          relevant_rows = [status |-> "returned", rows |-> PromptRows(ts),
                           ranked |-> FALSE, warned |-> FALSE]
    /\ max_token_count \in 0..MaxBudget
    /\ prompt = <<>>
    /\ stdout = <<>> /\ key = <<>> /\ lines = <<>> /\ df = <<>>
    /\ embeddings = <<>> /\ calls = <<>> /\ csv = <<>> /\ data = <<>>
    /\ top_n = 0 /\ response = NoResponse /\ answer = <<>>

CreatePrompt ==
    /\ pc = "create_prompt"
    /\ prompt' = create_prompt(user_input, relevant_rows.rows, max_token_count)
    /\ pc' = "prompt_done"
    /\ UNCHANGED <<stdout, key, lines, df, embeddings, calls, csv, data,
                   user_input, top_n, max_token_count, response, relevant_rows,
                   answer>>

NextPrompt == CreatePrompt

SpecPrompt == InitPrompt /\ [][NextPrompt]_vars

\* Tokens of the first k texts.
RECURSIVE TokensOfFirst(_, _)
TokensOfFirst(texts, k) ==
    IF k = 0 THEN 0 ELSE TokensOfFirst(texts, k - 1) + tokens(texts[k])

BaseTokens == tokens(prompt_template) + tokens(user_input)

\* C1: create_prompt packs first-fit-in-order.  The context block is the
\* join of exactly the longest prefix of the passage list whose cumulative
\* token count added to tokens(template)+tokens(question) stays within
\* max_token_count; nothing after the first passage that does not fit is
\* included; with no passage fitting the template and question are still
\* returned with an empty context block.
C1_FirstFitInOrder ==
    pc = "prompt_done" =>
        LET texts == TextColumn(relevant_rows.rows) IN
        \E k \in 0..Len(texts) :
            /\ \A j \in 1..k : BaseTokens + TokensOfFirst(texts, j) <= max_token_count
            /\ k < Len(texts) =>
                   BaseTokens + TokensOfFirst(texts, k + 1) > max_token_count
            /\ prompt = format(prompt_template,
                               <<join(ContextSeparator, SubSeq(texts, 1, k)),
                                 user_input>>)

\* C1 witness: a passage was cut off although a later, smaller passage would
\* still have fitted the remaining budget.
C1_Witness ==
    /\ pc = "prompt_done"
    /\ LET texts == TextColumn(relevant_rows.rows) IN
       \E k \in 1..Len(texts) :
           /\ BaseTokens + TokensOfFirst(texts, k) <= max_token_count
           /\ k < Len(texts)
           /\ BaseTokens + TokensOfFirst(texts, k + 1) > max_token_count
           /\ \E j \in (k + 2)..Len(texts) :
                  BaseTokens + TokensOfFirst(texts, k) + tokens(texts[j])
                      <= max_token_count
           /\ prompt = format(prompt_template,
                              <<join(ContextSeparator, SubSeq(texts, 1, k)),
                                user_input>>)

\* C2: whenever template and question fit the budget, the token length of
\* the returned prompt (template, question, selected passages and the
\* separators joining them) does not exceed max_token_count.
C2_PromptWithinBudget ==
    (pc = "prompt_done" /\ BaseTokens <= max_token_count) =>
        tokens(prompt) <= max_token_count

\* -------------------------------------------------------- get_relevant_rows
MaxRows == 3            \* passages in the table
MaxTopN == 4            \* largest top_n tried

\* Embedding vectors: unit length in units of 1/5, as the embedding model
\* returns normalised vectors.
EmbeddingSet == {<<5, 0>>, <<3, 4>>, <<0, 5>>, <<-5, 0>>}

\* The separator " \u2013 " (space, en dash, space) of the source.
EnDash == "--"

PassageText(k) == <<"2024", EnDash>> \o [j \in 1..k |-> "w"]

Dot(u, v) == u[1] * v[1] + u[2] * v[2]

Norm(v) == CHOOSE n \in 0..Dot(v, v) : n * n = Dot(v, v)

\* scipy's cosine distance 1 - u.v / (|u| |v|), in units of 1/25.
cosine_distance(u, v) == 25 - (25 * Dot(u, v)) \div (Norm(u) * Norm(v))

\* distances_from_embeddings(q, column, "cosine") assigned to df_copy.
with_distance(q, rows) ==
    [k \in DOMAIN rows |->
        [index |-> rows[k].index, unnamed |-> rows[k].unnamed,
         text |-> rows[k].text, embeddings |-> rows[k].embeddings,
         distance |-> cosine_distance(q, rows[k].embeddings)]]

RemoveAt(s, k) == SubSeq(s, 1, k - 1) \o SubSeq(s, k + 1, Len(s))

\* keep="last": among equal distances the last occurrence is taken first.
RECURSIVE nsmallest_keep_last(_, _)
nsmallest_keep_last(n, rows) ==
    IF n <= 0 \/ rows = <<>> THEN <<>>
    ELSE LET m == CHOOSE k \in DOMAIN rows :
                     \A j \in DOMAIN rows :
                         \/ rows[k].distance < rows[j].distance
                         \/ rows[k].distance = rows[j].distance /\ k >= j
         IN <<rows[m]>> \o nsmallest_keep_last(n - 1, RemoveAt(rows, m))

\* DataFrame.nsmallest(n, "distance") with the default keep="first": the n
\* rows of smallest distance in ascending order, equal distances in their
\* order of occurrence.
RECURSIVE nsmallest(_, _)
nsmallest(n, rows) ==
    IF n <= 0 \/ rows = <<>> THEN <<>>
    ELSE LET m == CHOOSE k \in DOMAIN rows :
                     \A j \in DOMAIN rows :
                         \/ rows[k].distance < rows[j].distance
                         \/ rows[k].distance = rows[j].distance /\ k <= j
         IN <<rows[m]>> \o nsmallest(n - 1, RemoveAt(rows, m))

\* What openai.Embedding.create can do: raise, or return a
\* response with or without a 'data' list.
EmbeddingResponses ==
    {[kind |-> "raise", has_data |-> FALSE, data |-> <<>>],
     [kind |-> "response", has_data |-> FALSE, data |-> <<>>],
     [kind |-> "response", has_data |-> TRUE, data |-> <<>>]}
    \cup {[kind |-> "response", has_data |-> TRUE, data |-> <<q>>] :
             q \in EmbeddingSet}

get_relevant_rows(resp, frame, n) ==
    IF resp.kind = "raise"
    THEN [status |-> "raised", rows |-> <<>>, ranked |-> FALSE, warned |-> FALSE]
    ELSE IF resp.has_data /\ Len(resp.data) > 0
    THEN IF \E k \in DOMAIN frame : frame[k].embeddings = None
         THEN [status |-> "raised", rows |-> <<>>, ranked |-> FALSE,
               warned |-> FALSE]
         ELSE [status |-> "returned",
               rows |-> nsmallest(n, with_distance(resp.data[1], frame)),
               ranked |-> TRUE, warned |-> FALSE]
    ELSE [status |-> "returned", rows |-> Head_n(frame, n),
          ranked |-> FALSE, warned |-> TRUE]

\* ------------------------------------------ specification: get_relevant_rows
\* Tables as load_embeddings returns them: a fresh 0-based index, the saved
\* index in the column "Unnamed: 0", the text and its embedding.
Frames(n) ==
    {[k \in DOMAIN es |->
         [index |-> k - 1, unnamed |-> k, text |-> PassageText(k),
          embeddings |-> es[k]]] :
        es \in NonEmptySeqsUpTo(EmbeddingSet, n)}

Questions == {<<"w", "h", "o">>, <<"W", "h", "e", "n">>}

InitRank ==
    /\ pc = "get_relevant_rows"
    /\ data \in Frames(MaxRows)
    /\ top_n \in 0..MaxTopN
    /\ user_input \in Questions
    /\ relevant_rows = NoRows
    /\ response = NoResponse
    /\ stdout = <<>> /\ key = <<>> /\ lines = <<>> /\ df = <<>>
    /\ embeddings = <<>> /\ calls = <<>> /\ csv = <<>>
    /\ max_token_count = 0 /\ prompt = <<>> /\ answer = <<>>

GetRelevantRows ==
    /\ pc = "get_relevant_rows"
    /\ \E resp \in EmbeddingResponses :
          /\ response' = resp
          /\ relevant_rows' = get_relevant_rows(resp, data, top_n)
    /\ pc' = "rank_done"
    /\ UNCHANGED <<stdout, key, lines, df, embeddings, calls, csv, data,
                   user_input, top_n, max_token_count, prompt, answer>>

NextRank == GetRelevantRows

SpecRank == InitRank /\ [][NextRank]_vars

QuestionEmbedded ==
    response.kind = "response" /\ response.has_data /\ Len(response.data) > 0

Min(a, b) == IF a < b THEN a ELSE b

\* C3: with the question embedded and top_n >= 0, get_relevant_rows returns
\* exactly min(top_n, number of passages) passages, each a passage of the
\* table carrying its cosine distance to the question, in non-decreasing
\* distance with equal distances in corpus order, and no passage left out
\* precedes (by distance, then corpus position) one that was returned.
C3_TopNStableRanking ==
    (pc = "rank_done" /\ QuestionEmbedded) =>
        LET r == relevant_rows.rows
            q == response.data[1]
            Before(a, b) == \/ a.distance < b.distance
                            \/ a.distance = b.distance /\ a.index < b.index
        IN  /\ relevant_rows.status = "returned"
            /\ Len(r) = Min(top_n, Len(data))
            /\ \A k \in DOMAIN r :
                   /\ r[k].index + 1 \in DOMAIN data
                   /\ r[k].text = data[r[k].index + 1].text
                   /\ r[k].embeddings = data[r[k].index + 1].embeddings
                   /\ r[k].distance = cosine_distance(q, r[k].embeddings)
            /\ \A k \in 1..(Len(r) - 1) : Before(r[k], r[k + 1])
            /\ \A i \in DOMAIN data :
                   (\A k \in DOMAIN r : r[k].index # data[i].index) =>
                       \A k \in DOMAIN r :
                           Before(r[k],
                                  [distance |-> cosine_distance(q, data[i].embeddings),
                                   index |-> data[i].index])

\* C3 witness: a ranking that cut the table (top_n below its size), moved a
\* later passage ahead of an earlier one, and holds two passages of equal
\* distance.
C3_Witness ==
    /\ pc = "rank_done" /\ QuestionEmbedded
    /\ 0 < top_n /\ top_n < Len(data)
    /\ LET r == relevant_rows.rows IN
       /\ Len(r) = top_n
       /\ \E k \in 1..(Len(r) - 1) :
              r[k].distance = r[k + 1].distance /\ r[k].index < r[k + 1].index
       /\ \E i \in DOMAIN data :
              /\ \A k \in DOMAIN r : r[k].index # data[i].index
              /\ data[i].index < r[1].index

\* C4: when the embedding call for the question raises or returns a result
\* without usable 'data', get_relevant_rows does not abort: it returns the
\* first top_n passages in corpus order, marked as a fallback (a warning,
\* no distance column).
C4_FallbackOnEmbeddingFailure ==
    (pc = "rank_done" /\ ~QuestionEmbedded) =>
        /\ relevant_rows.status = "returned"
        /\ relevant_rows.rows = Head_n(data, top_n)
        /\ relevant_rows.warned /\ ~relevant_rows.ranked

\* -------------------------------------------------------- get_openai_answer
MaxAnswerLen == 3       \* characters in a completion text
MaxChoices == 2         \* entries in a response's 'choices'

Chars == {" ", "x", "y"}

\* str.strip(): leading and trailing whitespace removed.
RECURSIVE lstrip(_)
lstrip(s) == IF s # <<>> /\ Head(s) = " " THEN lstrip(Tail(s)) ELSE s

RECURSIVE rstrip(_)
rstrip(s) ==
    IF s # <<>> /\ s[Len(s)] = " " THEN rstrip(SubSeq(s, 1, Len(s) - 1)) ELSE s

strip(s) == rstrip(lstrip(s))

ErrorAnswer == <<"An error occurred.">>

NoAnswer == <<"No answer found in response.">>

Returned(v) == [status |-> "returned", value |-> v]

Raised == [status |-> "raised", value |-> <<>>]

\* A choice of a completion response: with or without its 'text'.
Choices ==
    {[has_text |-> FALSE, text |-> <<>>]}
    \cup {[has_text |-> TRUE, text |-> t] : t \in SeqsUpTo(Chars, MaxAnswerLen)}

OtherChoice == [has_text |-> TRUE, text |-> <<"y">>]

\* What openai.Completion.create can do: raise, or return a response with or
\* without a 'choices' list.
CompletionResponses ==
    {[kind |-> "raise", has_choices |-> FALSE, choices |-> <<>>],
     [kind |-> "response", has_choices |-> FALSE, choices |-> <<>>]}
    \cup {[kind |-> "response", has_choices |-> TRUE, choices |-> <<>>]}
    \cup {[kind |-> "response", has_choices |-> TRUE,
           choices |-> <<c>> \o [k \in 1..m |-> OtherChoice]] :
             c \in Choices, m \in 0..(MaxChoices - 1)}

\* The body of the try block.
get_openai_answer_try(resp) ==
    IF resp.kind = "raise" THEN Raised
    ELSE IF resp.has_choices /\ Len(resp.choices) > 0
    THEN IF resp.choices[1].has_text
         THEN Returned(strip(resp.choices[1].text))
         ELSE Raised
    ELSE Returned(NoAnswer)

\* get_openai_answer without its except clause.
get_openai_answer_unguarded(resp) == get_openai_answer_try(resp)

get_openai_answer(resp) ==
    IF get_openai_answer_try(resp).status = "raised"
    THEN Returned(ErrorAnswer)
    ELSE get_openai_answer_try(resp)

\* ------------------------------------------ specification: get_openai_answer
InitAnswer ==
    /\ pc = "get_openai_answer"
    /\ prompt \in {create_prompt(q, <<>>, 0) : q \in Questions}
    /\ response = NoResponse
    /\ answer = <<>>
    /\ stdout = <<>> /\ key = <<>> /\ lines = <<>> /\ df = <<>>
    /\ embeddings = <<>> /\ calls = <<>> /\ csv = <<>> /\ data = <<>>
    /\ user_input = <<>> /\ top_n = 0 /\ max_token_count = 0
    /\ relevant_rows = NoRows

GetOpenAIAnswer ==
    /\ pc = "get_openai_answer"
    /\ \E resp \in CompletionResponses :
          /\ response' = resp
          /\ answer' = get_openai_answer(resp)
    /\ pc' = "answer_done"
    /\ UNCHANGED <<stdout, key, lines, df, embeddings, calls, csv, data,
                   user_input, top_n, max_token_count, relevant_rows, prompt>>

NextAnswer == GetOpenAIAnswer

SpecAnswer == InitAnswer /\ [][NextAnswer]_vars

\* v is s with only whitespace removed from its two ends, all of it.
IsStripped(v, s) ==
    /\ \E i \in 1..(Len(s) + 1) : \E j \in 0..Len(s) :
           /\ v = SubSeq(s, i, j)
           /\ \A k \in 1..(i - 1) : s[k] = " "
           /\ \A k \in (j + 1)..Len(s) : s[k] = " "
    /\ v # <<>> => v[1] # " " /\ v[Len(v)] # " "

MaxKeyLen == 5          \* characters typed at a key prompt
MaxReprompts == 2       \* empty entries before a key is given

ShownChars == 4

KeyChars == {" ", "a", "b"}

\* key[-4:]
last_chars(s) ==
    SubSeq(s, IF Len(s) > ShownChars THEN Len(s) - ShownChars + 1 ELSE 1, Len(s))

InitKey ==
    /\ pc = "getpass"
    /\ key = <<>>
    /\ stdout = <<>>
    /\ lines = <<>> /\ df = <<>>
    /\ embeddings = <<>> /\ calls = <<>> /\ csv = <<>> /\ data = <<>>
    /\ user_input = <<>> /\ top_n = 0 /\ max_token_count = 0
    /\ response = NoResponse /\ relevant_rows = NoRows
    /\ prompt = <<>> /\ answer = <<>>

othersKey == <<lines, df, embeddings, calls, csv, data, user_input, top_n,
               max_token_count, response, relevant_rows, prompt, answer>>

\* key = getpass.getpass(...).strip()
KeyFirstEntry ==
    /\ pc = "getpass"
    /\ \E typed \in SeqsUpTo(KeyChars, MaxKeyLen) : key' = strip(typed)
    /\ pc' = "while"
    /\ UNCHANGED <<stdout, othersKey>>

\* while not key: print(...); key = getpass.getpass(...).strip()
KeyEmptyReprompt ==
    /\ pc = "while"
    /\ key = <<>>
    /\ Len(stdout) < MaxReprompts
    /\ stdout' = Append(stdout, [text |-> "API key cannot be empty!", shown |-> <<>>])
    /\ \E typed \in SeqsUpTo(KeyChars, MaxKeyLen) : key' = strip(typed)
    /\ UNCHANGED <<pc, othersKey>>

\* print(f"API key configured (last 4 chars): ****{key[-4:]}"); return key
KeyConfigured ==
    /\ pc = "while"
    /\ key # <<>>
    /\ stdout' = Append(stdout, [text |-> "API key configured (last 4 chars): ****",
                                 shown |-> last_chars(key)])
    /\ pc' = "key_returned"
    /\ UNCHANGED <<key, othersKey>>

NextKey == KeyFirstEntry \/ KeyEmptyReprompt \/ KeyConfigured

SpecKey == InitKey /\ [][NextKey]_vars

\* C7: get_openai_api_key never echoes the key in full: whatever non-empty
\* key it accepts, every printed line shows only a trailing part of the key
\* strictly shorter than the key; an empty entry is never accepted.
C7_KeyNeverEchoedInFull ==
    pc = "key_returned" =>
        /\ key # <<>>
        /\ \A k \in DOMAIN stdout :
               /\ Len(stdout[k].shown) < Len(key)
               /\ stdout[k].shown =
                      SubSeq(key, Len(key) - Len(stdout[k].shown) + 1, Len(key))

\* ------------------------------------------------------------- load_dataset
MaxLines == 4           \* lines in the fetched extract

\* Lines of the extract: an empty line, a heading, two standalone dates, two
\* undated sentences and a sentence that already carries its date.
DateTexts == {<<"January 1">>, <<"March 5">>}

LineSet ==
    {<<>>, <<"==", "Events", "==">>, <<"a storm hits">>, <<"a vote is held">>,
     <<"January 1", EnDash, "a law passes">>}
    \cup DateTexts

\* " - " in text
HasSeparator(text) == \E k \in DOMAIN text : text[k] = EnDash

\* text.startswith("==")
IsHeading(text) == text # <<>> /\ Head(text) = "=="

\* dateutil's parse(text) returns instead of raising
ParsesAsDate(text) == text \in DateTexts

Row(i, text) == [index |-> i, text |-> text]

\* df = df[(df["text"].str.len() > 0) & (~df["text"].str.startswith("=="))]
\* The index of a row is the position of its line in the extract.
RECURSIVE CleanRows(_, _)
CleanRows(ls, i) ==
    IF ls = <<>> THEN <<>>
    ELSE (IF Len(Head(ls)) > 0 /\ ~IsHeading(Head(ls))
          THEN <<Row(i, Head(ls))>> ELSE <<>>)
         \o CleanRows(Tail(ls), i + 1)

\* The loop with the assignment to row["text"] lost (rows handed out by
\* iterrows as copies).
RECURSIVE PrefixRowsOnCopies(_, _)
PrefixRowsOnCopies(rows, prefix) ==
    IF rows = <<>> THEN <<>>
    ELSE LET row == Head(rows) IN
         IF ~HasSeparator(row.text) /\ ParsesAsDate(row.text)
         THEN <<row>> \o PrefixRowsOnCopies(Tail(rows), row.text)
         ELSE <<row>> \o PrefixRowsOnCopies(Tail(rows), prefix)

\* for (i, row) in df.iterrows(): ... with the running `prefix`.  The
\* assignment to row["text"] writes through to the one-column object frame.
RECURSIVE PrefixRows(_, _)
PrefixRows(rows, prefix) ==
    IF rows = <<>> THEN <<>>
    ELSE LET row == Head(rows) IN
         IF ~HasSeparator(row.text)
         THEN IF ParsesAsDate(row.text)
              THEN <<row>> \o PrefixRows(Tail(rows), row.text)
              ELSE <<Row(row.index, prefix \o <<EnDash>> \o row.text)>>
                   \o PrefixRows(Tail(rows), prefix)
         ELSE <<row>> \o PrefixRows(Tail(rows), prefix)

\* df = df[df["text"].str.contains(" - ")]
DatedRows(rows) == SelectSeq(rows, LAMBDA row : HasSeparator(row.text))

load_dataset(ls) == DatedRows(PrefixRows(CleanRows(ls, 0), <<>>))

\* ----------------------------------------------- specification: load_dataset
InitLoad ==
    /\ pc = "load_dataset"
    /\ lines \in SeqsUpTo(LineSet, MaxLines)
    /\ df = <<>>
    /\ stdout = <<>> /\ key = <<>>
    /\ embeddings = <<>> /\ calls = <<>> /\ csv = <<>> /\ data = <<>>
    /\ user_input = <<>> /\ top_n = 0 /\ max_token_count = 0
    /\ response = NoResponse /\ relevant_rows = NoRows
    /\ prompt = <<>> /\ answer = <<>>

LoadDataset ==
    /\ pc = "load_dataset"
    /\ df' = load_dataset(lines)
    /\ pc' = "dataset_loaded"
    /\ UNCHANGED <<stdout, key, lines, embeddings, calls, csv, data, user_input,
                   top_n, max_token_count, response, relevant_rows, prompt,
                   answer>>

NextLoad == LoadDataset

SpecLoad == InitLoad /\ [][NextLoad]_vars

\* The line at 0-based position i of the extract.
LineAt(i) == lines[i + 1]

Positions == 0..(Len(lines) - 1)

IsDateLine(i) == ~HasSeparator(LineAt(i)) /\ ParsesAsDate(LineAt(i))

IsUndatedLine(i) ==
    /\ Len(LineAt(i)) > 0 /\ ~IsHeading(LineAt(i))
    /\ ~HasSeparator(LineAt(i)) /\ ~ParsesAsDate(LineAt(i))

HasDateBefore(i) == \E j \in Positions : j < i /\ IsDateLine(j)

\* The most recent date line before position i.
DateBefore(i) ==
    LineAt(CHOOSE j \in Positions :
               /\ j < i /\ IsDateLine(j)
               /\ \A m \in Positions : (m < i /\ IsDateLine(m)) => m <= j)

ReturnedAt(i) == \E k \in DOMAIN df : df[k].index = i

TextAt(i) == df[CHOOSE k \in DOMAIN df : df[k].index = i].text

\* The parts of the statement that do not depend on a date having been seen.
LoadedCommon ==
    /\ \A k \in DOMAIN df : HasSeparator(df[k].text) /\ df[k].index \in Positions
    /\ \A k \in 1..(Len(df) - 1) : df[k].index < df[k + 1].index
    /\ \A i \in Positions :
           /\ IsDateLine(i) => ~ReturnedAt(i)
           /\ (Len(LineAt(i)) = 0 \/ IsHeading(LineAt(i))) => ~ReturnedAt(i)
           /\ (HasSeparator(LineAt(i)) /\ ~IsHeading(LineAt(i)))
                  => (ReturnedAt(i) /\ TextAt(i) = LineAt(i))
           /\ (IsUndatedLine(i) /\ HasDateBefore(i))
                  => (ReturnedAt(i)
                      /\ TextAt(i) = DateBefore(i) \o <<EnDash>> \o LineAt(i))

default_top_n == 10

default_max_prompt_tokens == 1500

\* get_embedding_for_text: the embedding of the first entry of 'data'; None
\* (after printing an error) when 'data' is missing; data[0] of an empty list
\* raises.
get_embedding_for_text(resp) ==
    IF resp.kind = "raise" THEN Raised
    ELSE IF resp.has_data
    THEN IF Len(resp.data) > 0 THEN Returned(resp.data[1]) ELSE Raised
    ELSE Returned(None)

\* The loop body with a bare `continue` in the except clause.
append_embedding_unless_failed(list, resp) ==
    IF get_embedding_for_text(resp).status = "raised"
    THEN list
    ELSE Append(list, get_embedding_for_text(resp).value)

\* The body of the loop of generate_embeddings: the embedding is appended,
\* or None when the call raised.
append_embedding(list, resp) ==
    IF get_embedding_for_text(resp).status = "raised"
    THEN Append(list, None)
    ELSE Append(list, get_embedding_for_text(resp).value)

\* df["embeddings"] = embeddings
with_embeddings(rows, list) ==
    [k \in DOMAIN rows |->
        [index |-> rows[k].index, text |-> rows[k].text, embeddings |-> list[k]]]

\* A cell of the csv file: str(list) for a list, the empty field for None.
to_csv_cell(e) == IF e = None THEN <<>> ELSE <<"[", e, "]">>

\* df.to_csv(output_file): the index, the text and the embeddings cell.
to_csv(rows) ==
    [k \in DOMAIN rows |->
        [index |-> rows[k].index, text |-> rows[k].text,
         embeddings |-> to_csv_cell(rows[k].embeddings)]]

\* eval(cell) on what read_csv made of the cell: an empty field was read as
\* NaN, a float, and eval of a float raises TypeError.
eval_cell(cell) == IF cell = <<>> THEN Raised ELSE Returned(cell[2])

\* load_embeddings with empty cells passed over instead of evaluated.
load_embeddings_skipping_empty(file) ==
    Returned([k \in DOMAIN file |->
                 [index |-> k - 1, unnamed |-> file[k].index,
                  text |-> file[k].text,
                  embeddings |-> IF file[k].embeddings = <<>> THEN None
                                 ELSE eval_cell(file[k].embeddings).value]])

\* load_embeddings: pd.read_csv, then eval and np.array on every cell of the
\* embeddings column.
load_embeddings(file) ==
    IF \E k \in DOMAIN file : eval_cell(file[k].embeddings).status = "raised"
    THEN Raised
    ELSE Returned([k \in DOMAIN file |->
                      [index |-> k - 1, unnamed |-> file[k].index,
                       text |-> file[k].text,
                       embeddings |-> eval_cell(file[k].embeddings).value]])

\* str.lower() on the characters typed.
lower_char(c) ==
    CASE c = "E" -> "e" [] c = "X" -> "x" [] c = "I" -> "i" [] c = "T" -> "t"
      [] c = "W" -> "w" [] OTHER -> c

lower(text) == [k \in DOMAIN text |-> lower_char(text[k])]

exit == <<"e", "x", "i", "t">>

\* What the user may type at the prompt.
Inputs ==
    Questions \cup {exit, <<"E", "X", "I", "T">>, <<"E", "x", "i", "t">>,
                    <<"e", "x", "i", "t", " ", "?">>}

\* The extract behind the pipeline: a heading, then up to MaxRows dated lines.
Extracts ==
    {<<<<"==", "Events", "==">>>> \o [k \in 1..m |-> PassageText(k)] :
        m \in 1..MaxRows}

Init ==
    /\ pc = "load_dataset"
    /\ lines \in Extracts
    /\ df = <<>> /\ embeddings = <<>> /\ calls = <<>> /\ csv = <<>>
    /\ data = <<>>
    /\ user_input = <<>>
    /\ top_n = default_top_n
    /\ max_token_count = default_max_prompt_tokens
    /\ response = NoResponse /\ relevant_rows = NoRows
    /\ prompt = <<>> /\ answer = <<>>
    /\ stdout = <<>> /\ key = <<>>

params == <<stdout, key, lines, top_n, max_token_count>>

\* main: df = load_dataset()
MainLoadDataset ==
    /\ pc = "load_dataset"
    /\ df' = load_dataset(lines)
    /\ pc' = "generate_embeddings"
    /\ UNCHANGED <<params, embeddings, calls, csv, data, user_input, response,
                   relevant_rows, prompt, answer>>

\* generate_embeddings: one pass of the loop over df.iterrows().
EmbedPassage ==
    /\ pc = "generate_embeddings"
    /\ Len(calls) < Len(df)
    /\ \E resp \in EmbeddingResponses :
          /\ calls' = Append(calls, [index |-> df[Len(calls) + 1].index,
                                     text |-> df[Len(calls) + 1].text,
                                     response |-> resp])
          /\ embeddings' = append_embedding(embeddings, resp)
    /\ UNCHANGED <<params, pc, df, csv, data, user_input, response,
                   relevant_rows, prompt, answer>>

\* generate_embeddings: df["embeddings"] = embeddings; return df.  A list of
\* another length than the frame raises ValueError.
AssignEmbeddings ==
    /\ pc = "generate_embeddings"
    /\ Len(calls) = Len(df)
    /\ IF Len(embeddings) = Len(df)
       THEN df' = with_embeddings(df, embeddings) /\ pc' = "save_embeddings"
       ELSE df' = df /\ pc' = "main_raised"
    /\ UNCHANGED <<params, embeddings, calls, csv, data, user_input, response,
                   relevant_rows, prompt, answer>>

\* main: save_embeddings(df, "./embeddings_with_vectors.csv")
SaveEmbeddings ==
    /\ pc = "save_embeddings"
    /\ csv' = to_csv(df)
    /\ pc' = "load_embeddings"
    /\ UNCHANGED <<params, df, embeddings, calls, data, user_input, response,
                   relevant_rows, prompt, answer>>

\* main: df = load_embeddings(...); return df; then data = main().  An
\* exception leaves main and the cell: data stays unbound and the cells
\* after it do not run.
LoadEmbeddings ==
    /\ pc = "load_embeddings"
    /\ IF load_embeddings(csv).status = "raised"
       THEN data' = data /\ pc' = "main_raised"
       ELSE data' = load_embeddings(csv).value /\ pc' = "input"
    /\ UNCHANGED <<params, df, embeddings, calls, csv, user_input, response,
                   relevant_rows, prompt, answer>>

\* while True: user_input = input(...); if user_input.lower() == 'exit': break
\* The answer printed by the pass before is no longer held.
ReadInput ==
    /\ pc = "input"
    /\ \E typed \in Inputs :
          /\ user_input' = typed
          /\ pc' = IF lower(typed) = exit THEN "loop_exited"
                   ELSE "answer_question_with_context"
    /\ answer' = <<>>
    /\ UNCHANGED <<params, df, embeddings, calls, csv, data, response,
                   relevant_rows, prompt>>

\* answer_question_with_context: get_relevant_rows, then create_prompt.  An
\* exception of get_relevant_rows is caught nowhere: it leaves the function
\* and the while loop.
RetrieveAndCompose ==
    /\ pc = "answer_question_with_context"
    /\ \E resp \in EmbeddingResponses :
          /\ response' = resp
          /\ relevant_rows' = get_relevant_rows(resp, data, top_n)
    /\ IF relevant_rows'.status = "raised"
       THEN prompt' = prompt /\ pc' = "loop_raised"
       ELSE /\ prompt' = create_prompt(user_input, relevant_rows'.rows,
                                       max_token_count)
            /\ pc' = "get_openai_answer"
    /\ UNCHANGED <<params, df, embeddings, calls, csv, data, user_input, answer>>

\* answer_question_with_context: return get_openai_answer(prompt); the loop
\* prints it and asks again.  The locals of the call are gone.
CompleteAndPrint ==
    /\ pc = "get_openai_answer"
    /\ \E resp \in CompletionResponses :
          answer' = get_openai_answer(resp)
    /\ response' = NoResponse
    /\ relevant_rows' = NoRows
    /\ prompt' = <<>>
    /\ pc' = "input"
    /\ UNCHANGED <<params, df, embeddings, calls, csv, data, user_input>>

Next ==
    \/ MainLoadDataset
    \/ EmbedPassage
    \/ AssignEmbeddings
    \/ SaveEmbeddings
    \/ LoadEmbeddings
    \/ ReadInput
    \/ RetrieveAndCompose
    \/ CompleteAndPrint

Spec == Init /\ [][Next]_vars

InLoop == pc \in {"input", "answer_question_with_context", "get_openai_answer"}

LoopEnded == pc \in {"loop_exited", "loop_raised"}

\* C5: in the question loop no provider outcome ends the loop or changes
\* the stored passage table: the loop ends only on the input 'exit' in any
\* letter case, and the table stays what main() loaded.
C5_LoopEndsOnlyOnExit ==
    /\ LoopEnded => lower(user_input) = exit
    /\ (InLoop \/ LoopEnded) => data = load_embeddings(csv).value

\* The provider answered the k-th request with a usable embedding.
Embedded(k) ==
    /\ calls[k].response.kind = "response"
    /\ calls[k].response.has_data
    /\ Len(calls[k].response.data) > 0

AfterGenerate == pc \notin {"load_dataset", "generate_embeddings"}

\* C8: generate_embeddings asks the provider once per passage, in corpus
\* order, and leaves one entry per passage at the passage's position: the
\* provider's vector when the call succeeded, None when it raised or came
\* back without usable data; a failure does not stop the passages after it;
\* and every entry is written before the loop retrieves anything.
C8_OneEmbeddingPerPassage ==
    /\ Len(calls) = Len(embeddings) /\ Len(calls) <= Len(df)
    /\ \A k \in DOMAIN calls :
           /\ calls[k].index = df[k].index /\ calls[k].text = df[k].text
           /\ embeddings[k] =
                  IF Embedded(k) THEN calls[k].response.data[1] ELSE None
    /\ AfterGenerate =>
           /\ pc # "main_raised" \/ csv # <<>>
           /\ Len(calls) = Len(df)
           /\ \A k \in DOMAIN df : df[k].embeddings = embeddings[k]
    /\ (InLoop \/ LoopEnded) =>
           /\ Len(data) = Len(df)
           /\ \A k \in DOMAIN data : data[k].embeddings = embeddings[k]

\* C8 witness: the first call raised, the second came back without data, the
\* third succeeded, and the table holds None, None and the vector.
C8_Witness ==
    /\ pc = "save_embeddings"
    /\ Len(df) = 3
    /\ calls[1].response.kind = "raise"
    /\ calls[2].response.kind = "response" /\ ~calls[2].response.has_data
    /\ Embedded(3)
    /\ df[1].embeddings = None /\ df[2].embeddings = None
    /\ df[3].embeddings = calls[3].response.data[1]

\* C10: no passage with an absent embedding is ever given a distance or
\* returned as ranked.  The table the loop retrieves from holds an embedding
\* vector for every passage, every ranked row carries one, and when
\* generate_embeddings left an absent embedding load_embeddings raises, so
\* that main() fails before any retrieval.
C10_NoAbsentEmbeddingRanked ==
    /\ (InLoop \/ LoopEnded) =>
           \A k \in DOMAIN data : data[k].embeddings \in EmbeddingSet
    /\ relevant_rows.ranked =>
           \A k \in DOMAIN relevant_rows.rows :
               relevant_rows.rows[k].embeddings \in EmbeddingSet
    /\ (csv # <<>> /\ pc # "load_embeddings"
          /\ \E k \in DOMAIN df : df[k].embeddings = None)
           => (pc = "main_raised" /\ data = <<>>)

\* C10 witness: a passage went without an embedding, the file was written,
\* and load_embeddings raised.
C10_Witness ==
    /\ pc = "main_raised"
    /\ csv # <<>>
    /\ \E k \in DOMAIN df : df[k].embeddings = None
    /\ \E k \in DOMAIN df : df[k].embeddings \in EmbeddingSet

====
